---- MODULE Spec2Model ----
(***************************************************************************)
(* Categorical-operation verification engine of atlas-embeddings           *)
(* (src/categorical/mod.rs): the five operations Product, Quotient,        *)
(* Filtration, Augmentation and Morphism, each a function from an Atlas to *)
(* an OperationResult.  The Atlas is an external collaborator; it enters   *)
(* the model as an input record                                            *)
(*     [n, mirror, deg, unity]                                             *)
(* answering the four queries num_vertices, mirror_pair, degree and        *)
(* unity_positions.  Well-formed and malformed Atlases are both inputs.    *)
(***************************************************************************)
EXTENDS Integers, Sequences, FiniteSets, TLC

VARIABLES
    atlas,    \* the Atlas the caller holds and lends (&Atlas) to every call
    lastOp,   \* name() of the operation of the most recent verify call
    result,   \* what that call produced: a result record, or a panic
    seen,     \* working storage of the most recent Quotient call (line 228)
    calls,    \* number of verify calls made so far
    alone     \* per operation, what verify produces as the very first call

vars == <<atlas, lastOp, result, seen, calls, alone>>

----------------------------------------------------------------------------
(* Bounds of the input space *)

MaxVertices == 97   \* Atlases of 0..MaxVertices vertices
MaxUnity == 3       \* unity_positions() of 0..MaxUnity entries
MaxDefect == 1      \* a defect of the mirror pairing sits at vertex 0..MaxDefect
MaxCalls == 2       \* verify calls made on one Atlas

----------------------------------------------------------------------------
(* Atlas queries (external collaborator, spec section 6) *)

num_vertices(a) == a.n
mirror_pair(a, v) == a.mirror[v]
degree(a, v) == a.deg[v]
unity_positions(a) == a.unity

----------------------------------------------------------------------------
(* Operation taxonomy.  Strings are written in ASCII: "G2" for the source's *)
(* G with subscript 2, "x" for the multiplication sign, "+-" for the plus-minus sign. *)

Ops == {"Product", "Quotient", "Filtration", "Augmentation", "Morphism"}

target_group(op) ==
    CASE op = "Product" -> "G2"
      [] op = "Quotient" -> "F4"
      [] op = "Filtration" -> "E6"
      [] op = "Augmentation" -> "E7"
      [] op = "Morphism" -> "E8"

\* Faulty variant: the table drifts from the count the Quotient result carries.
expected_roots_drifted(op) ==
    CASE op = "Product" -> 12
      [] op = "Quotient" -> 24
      [] op = "Filtration" -> 72
      [] op = "Augmentation" -> 126
      [] op = "Morphism" -> 240

expected_roots(op) ==
    CASE op = "Product" -> 12
      [] op = "Quotient" -> 48
      [] op = "Filtration" -> 72
      [] op = "Augmentation" -> 126
      [] op = "Morphism" -> 240

----------------------------------------------------------------------------
(* Outcomes of a call *)

\* struct OperationResult, returned by value
OperationResult(group_name, operation_type, expected, actual_count, verified, details) ==
    [kind |-> "returned",
     group_name |-> group_name,
     operation_type |-> operation_type,
     expected_roots |-> expected,
     actual_count |-> actual_count,
     verified |-> verified,
     details |-> details]

\* seen[mirror] with mirror >= seen.len(): the index is bounds-checked and the
\* call panics instead of returning
Panic == [kind |-> "panic"]

NoCall == [kind |-> "none"]

Min(a, b) == IF a < b THEN a ELSE b

----------------------------------------------------------------------------
(* Product: Klein x Z/3 -> G2 *)

\* Faulty variant: the 12-fold divisibility of the vertex count is not checked.
verify_product_no_divisibility(a) ==
    LET unity == unity_positions(a)
        product_size == 4 * 3
        verified == Len(unity) = 2 /\ product_size = 12
    IN OperationResult("G2", "Product (Klein x Z/3)", 12, product_size, verified,
                       <<Len(unity), num_vertices(a) % 12 = 0>>)

verify_product(a) ==
    LET unity == unity_positions(a)
        klein_size == 4
        cycle_extension == 3
        product_size == klein_size * cycle_extension
        atlas_divisible == (num_vertices(a) % 12 = 0)
        verified == Len(unity) = 2 /\ product_size = 12 /\ atlas_divisible
    IN OperationResult("G2", "Product (Klein x Z/3)", 12, product_size, verified,
                       <<Len(unity), atlas_divisible>>)

----------------------------------------------------------------------------
(* Quotient: 96/+- -> F4 *)

\* Faulty variant: a marker array of the right length left by an earlier call
\* is reused without being cleared.
NewSeenReused(num) ==
    IF DOMAIN seen = 0..(num - 1) THEN seen ELSE [v \in 0..(num - 1) |-> FALSE]

\* vec![false; num_vertices]
NewSeen(num) == [v \in 0..(num - 1) |-> FALSE]

\* Faulty variant: the mirror of an unseen vertex is not marked.
QuotientStepNoMirrorMark(a, st, v) ==
    IF st.seen[v] THEN st
    ELSE [st EXCEPT !.seen = [st.seen EXCEPT ![v] = TRUE],
                    !.sign_classes = st.sign_classes + 1]

\* One iteration of `for v in 0..num_vertices` on the loop state
\* st = [seen, sign_classes, panicked].

QuotientStep(a, st, v) ==
    IF st.seen[v] THEN st
    ELSE LET mirror == mirror_pair(a, v)
             seen1 == [st.seen EXCEPT ![v] = TRUE]
         IN IF mirror \in DOMAIN seen1
            THEN [st EXCEPT !.seen = [seen1 EXCEPT ![mirror] = TRUE],
                            !.sign_classes = st.sign_classes + 1]
            ELSE [st EXCEPT !.seen = seen1, !.panicked = TRUE]

\* The iterations v = lo, lo+1, ..., hi-1 of the loop, in that order, from the
\* loop state st; a panic leaves the loop at once.  The range is walked as
\* its lower half followed by its upper half.
RECURSIVE QuotientLoop(_, _, _, _)
QuotientLoop(a, st, lo, hi) ==
    IF st.panicked \/ lo >= hi THEN st
    ELSE IF hi = lo + 1 THEN QuotientStep(a, st, lo)
    ELSE LET mid == (lo + hi) \div 2
         IN QuotientLoop(a, QuotientLoop(a, st, lo, mid), mid, hi)

\* The loop state when the call ends.
QuotientRun(a) ==
    QuotientLoop(a, [seen |-> NewSeen(num_vertices(a)), sign_classes |-> 0,
                     panicked |-> FALSE], 0, num_vertices(a))

verify_quotient(a) ==
    LET st == QuotientRun(a)
        sign_classes == st.sign_classes
        verified == (sign_classes = 48)
    IN IF st.panicked THEN Panic
       ELSE OperationResult("F4", "Quotient (96/+-)", 48, sign_classes, verified,
                            <<sign_classes>>)

----------------------------------------------------------------------------
(* Filtration: degree partition -> E6 *)

\* The match on atlas.degree(v): what iteration v adds to the two counters
FiltrationStep(a, v) ==
    LET d == degree(a, v)
    IN CASE d = 5 -> [deg5_count |-> 1, deg6_count |-> 0]
         [] d = 6 -> [deg5_count |-> 0, deg6_count |-> 1]
         [] OTHER -> [deg5_count |-> 0, deg6_count |-> 0]

\* What the iterations v = lo, ..., hi-1 of `for v in 0..atlas.num_vertices()`
\* add to the two counters; the range is walked as its lower half followed by
\* its upper half.
RECURSIVE FiltrationLoop(_, _, _)
FiltrationLoop(a, lo, hi) ==
    IF lo >= hi THEN [deg5_count |-> 0, deg6_count |-> 0]
    ELSE IF hi = lo + 1 THEN FiltrationStep(a, lo)
    ELSE LET mid == (lo + hi) \div 2
             lower == FiltrationLoop(a, lo, mid)
             upper == FiltrationLoop(a, mid, hi)
         IN [deg5_count |-> lower.deg5_count + upper.deg5_count,
             deg6_count |-> lower.deg6_count + upper.deg6_count]

\* Faulty variant: the contributions are not capped at 64 and 8.
verify_filtration_uncapped(a) ==
    LET c == FiltrationLoop(a, 0, num_vertices(a))
        e6_total == c.deg5_count + c.deg6_count
        verified == e6_total = 72 /\ c.deg5_count >= 64 /\ c.deg6_count >= 8
    IN OperationResult("E6", "Filtration (degree-partition)", 72, e6_total, verified,
                       <<c.deg5_count, c.deg6_count, e6_total, c.deg5_count, c.deg6_count>>)

verify_filtration(a) ==
    LET c == FiltrationLoop(a, 0, num_vertices(a))
        deg5_count == c.deg5_count
        deg6_count == c.deg6_count
        e6_from_deg5 == Min(64, deg5_count)
        e6_from_deg6 == Min(8, deg6_count)
        e6_total == e6_from_deg5 + e6_from_deg6
        verified == e6_total = 72 /\ deg5_count >= 64 /\ deg6_count >= 8
    IN OperationResult("E6", "Filtration (degree-partition)", 72, e6_total, verified,
                       <<e6_from_deg5, e6_from_deg6, e6_total, deg5_count, deg6_count>>)

----------------------------------------------------------------------------
(* Augmentation: 96 + 30 -> E7 *)

\* Faulty variant: the total is the textbook count instead of vertices + 30.
verify_augmentation_fixed_total(a) ==
    LET atlas_vertices == num_vertices(a)
        s4_orbits == 30
        e7_total == 126
    IN OperationResult("E7", "Augmentation (96+30)", 126, e7_total, e7_total = 126,
                       <<atlas_vertices, s4_orbits, e7_total>>)

verify_augmentation(a) ==
    LET atlas_vertices == num_vertices(a)
        s4_orbits == 30
        e7_total == atlas_vertices + s4_orbits
        verified == e7_total = 126 /\ atlas_vertices = 96
    IN OperationResult("E7", "Augmentation (96+30)", 126, e7_total, verified,
                       <<atlas_vertices, s4_orbits, e7_total>>)

----------------------------------------------------------------------------
(* Morphism: direct embedding -> E8 *)

\* Faulty variant: the embedded count is reported as the actual count.
verify_morphism_embedded(a) ==
    LET atlas_vertices == num_vertices(a)
        e8_roots == 240
        embedded_count == atlas_vertices
        coverage_percent == (embedded_count * 100) \div e8_roots
    IN OperationResult("E8", "Morphism (direct-embedding)", 240, embedded_count,
                       embedded_count = 96 /\ e8_roots = 240,
                       <<atlas_vertices, embedded_count, e8_roots, coverage_percent>>)

verify_morphism(a) ==
    LET atlas_vertices == num_vertices(a)
        e8_roots == 240
        embedded_count == atlas_vertices
        coverage_percent == (embedded_count * 100) \div e8_roots
        verified == embedded_count = 96 /\ e8_roots = 240
    IN OperationResult("E8", "Morphism (direct-embedding)", 240, e8_roots, verified,
                       <<atlas_vertices, embedded_count, e8_roots, coverage_percent>>)

----------------------------------------------------------------------------
(* Dispatch *)

\* Faulty variant: the Augmentation arm calls the Morphism check.
verify_misrouted(op, a) ==
    CASE op = "Product" -> verify_product(a)
      [] op = "Quotient" -> verify_quotient(a)
      [] op = "Filtration" -> verify_filtration(a)
      [] op = "Augmentation" -> verify_morphism(a)
      [] op = "Morphism" -> verify_morphism(a)

verify(op, a) ==
    CASE op = "Product" -> verify_product(a)
      [] op = "Quotient" -> verify_quotient(a)
      [] op = "Filtration" -> verify_filtration(a)
      [] op = "Augmentation" -> verify_augmentation(a)
      [] op = "Morphism" -> verify_morphism(a)

----------------------------------------------------------------------------
(* Input Atlases.  Each operation reads the vertex count and at most one   *)
(* other query, so the inputs vary one query at a time around a reference  *)
(* Atlas shape (adjacent mirror pairs, 64 vertices of degree 5 followed by *)
(* vertices of degree 6, two unity positions), for every vertex count.     *)

Vertices(n) == 0..(n - 1)

\* adjacent pairs (0 1)(2 3)...; with n odd the last vertex is its own mirror
MirrorAdjacent(n) ==
    [v \in Vertices(n) |->
        IF v % 2 = 1 THEN v - 1 ELSE IF v + 1 < n THEN v + 1 ELSE v]

\* v <-> n-1-v; with n odd the middle vertex is its own mirror
MirrorReverse(n) == [v \in Vertices(n) |-> n - 1 - v]

\* v -> v + n/2 (mod n): an involution exactly when n is even
MirrorHalfTurn(n) == [v \in Vertices(n) |-> (v + (n \div 2)) % n]

\* every vertex its own mirror
MirrorIdentity(n) == [v \in Vertices(n) |-> v]

\* v -> v + 1 (mod n): in range, no involution for n > 2
MirrorSuccessor(n) == [v \in Vertices(n) |-> (v + 1) % n]

\* v <-> n-1-v with the two middle vertices of an even n fixed instead
MirrorTwoFixed(n) ==
    [v \in Vertices(n) |->
        IF n % 2 = 0 /\ v \in {(n \div 2) - 1, n \div 2} THEN v ELSE n - 1 - v]

\* adjacent pairs, with vertex p answering the out-of-range index n
MirrorOutOfRangeAt(n, p) ==
    [v \in Vertices(n) |-> IF v = p THEN n ELSE MirrorAdjacent(n)[v]]

\* adjacent pairs, with vertex p answering itself
MirrorFixedAt(n, p) ==
    [v \in Vertices(n) |-> IF v = p THEN v ELSE MirrorAdjacent(n)[v]]

Mirrors(n) ==
    {MirrorAdjacent(n), MirrorReverse(n), MirrorHalfTurn(n), MirrorIdentity(n),
     MirrorSuccessor(n), MirrorTwoFixed(n)}
    \cup {MirrorOutOfRangeAt(n, p) : p \in 0..MaxDefect}
    \cup {MirrorFixedAt(n, p) : p \in 0..MaxDefect}

\* n5 vertices of degree 5 and n6 of degree 6 (as far as n allows), the rest
\* of degree other; the degree-6 block first when sixFirst
DegreeBlocks(n, n5, n6, other, sixFirst) ==
    [v \in Vertices(n) |->
        IF sixFirst
        THEN IF v < n6 THEN 6 ELSE IF v < n6 + n5 THEN 5 ELSE other
        ELSE IF v < n5 THEN 5 ELSE IF v < n5 + n6 THEN 6 ELSE other]

\* degrees 5, 6 and other in turn
DegreeCycle(n, other) ==
    [v \in Vertices(n) |-> IF v % 3 = 0 THEN 5 ELSE IF v % 3 = 1 THEN 6 ELSE other]

Degrees(n) ==
    {DegreeBlocks(n, n5, n6, other, FALSE) :
        n5 \in {63, 64, 65}, n6 \in {7, 8, 9}, other \in {4, 7}}
    \cup {DegreeBlocks(n, 64, 8, 7, TRUE)}
    \cup {DegreeCycle(n, other) : other \in {4, 7}}

ReferenceDegree(n) == DegreeBlocks(n, 64, 32, 4, FALSE)

\* k positions 0, 1, ..., k-1
Unity(k) == [i \in 1..k |-> i - 1]

ReferenceUnity == Unity(2)

Atlases ==
    UNION {
        {[n |-> n, mirror |-> m, deg |-> ReferenceDegree(n), unity |-> ReferenceUnity] :
            m \in Mirrors(n)}
        \cup {[n |-> n, mirror |-> MirrorAdjacent(n), deg |-> d, unity |-> ReferenceUnity] :
            d \in Degrees(n)}
        \cup {[n |-> n, mirror |-> MirrorAdjacent(n), deg |-> ReferenceDegree(n),
               unity |-> Unity(k)] : k \in 0..MaxUnity}
        : n \in 0..MaxVertices}

----------------------------------------------------------------------------
(* The caller: an Atlas, then verify calls in any order, any number of times *)

Init ==
    /\ atlas \in Atlases
    /\ lastOp = "none"
    /\ result = NoCall
    /\ seen = <<>>
    /\ calls = 0
    /\ alone = [op \in Ops |-> verify(op, atlas)]

\* op.verify(&atlas) for each of the five operations: the Atlas is borrowed
\* immutably; only the Quotient call allocates storage, its marker array,
\* which it leaves behind released.
VerifyProduct ==
    /\ calls < MaxCalls
    /\ calls' = calls + 1
    /\ lastOp' = "Product"
    /\ result' = verify("Product", atlas)
    /\ UNCHANGED <<atlas, seen, alone>>

VerifyQuotient ==
    /\ calls < MaxCalls
    /\ calls' = calls + 1
    /\ lastOp' = "Quotient"
    /\ result' = verify("Quotient", atlas)
    /\ seen' = QuotientRun(atlas).seen
    /\ UNCHANGED <<atlas, alone>>

VerifyFiltration ==
    /\ calls < MaxCalls
    /\ calls' = calls + 1
    /\ lastOp' = "Filtration"
    /\ result' = verify("Filtration", atlas)
    /\ UNCHANGED <<atlas, seen, alone>>

VerifyAugmentation ==
    /\ calls < MaxCalls
    /\ calls' = calls + 1
    /\ lastOp' = "Augmentation"
    /\ result' = verify("Augmentation", atlas)
    /\ UNCHANGED <<atlas, seen, alone>>

VerifyMorphism ==
    /\ calls < MaxCalls
    /\ calls' = calls + 1
    /\ lastOp' = "Morphism"
    /\ result' = verify("Morphism", atlas)
    /\ UNCHANGED <<atlas, seen, alone>>

Next ==
    \/ VerifyProduct
    \/ VerifyQuotient
    \/ VerifyFiltration
    \/ VerifyAugmentation
    \/ VerifyMorphism

Spec == Init /\ [][Next]_vars

TypeOK ==
    /\ lastOp \in Ops \cup {"none"}
    /\ result.kind \in {"none", "returned", "panic"}
    /\ calls \in 0..MaxCalls

----------------------------------------------------------------------------
(* Properties *)

Returned == result.kind = "returned"

InRange(a) == \A v \in Vertices(a.n) : a.mirror[v] \in Vertices(a.n)

HasFixedPoint(a) == \E v \in Vertices(a.n) : a.mirror[v] = v

FixedPointFreeInvolution(a) ==
    \A v \in Vertices(a.n) :
        /\ a.mirror[v] \in Vertices(a.n)
        /\ a.mirror[v] # v
        /\ a.mirror[a.mirror[v]] = v

Deg5Count(a) == Cardinality({v \in Vertices(a.n) : a.deg[v] = 5})
Deg6Count(a) == Cardinality({v \in Vertices(a.n) : a.deg[v] = 6})

\* C1: on an Atlas whose mirror_pair is a fixed-point-free involution over its
\* N vertices, Quotient returns with actual_count = N/2; with N = 96 the count
\* is 48 and verified is true.
C1_QuotientHalf ==
    (lastOp = "Quotient" /\ FixedPointFreeInvolution(atlas)) =>
        /\ Returned
        /\ 2 * result.actual_count = atlas.n
        /\ result.actual_count = atlas.n \div 2
        /\ (atlas.n = 96 => result.actual_count = 48 /\ result.verified)

C1_Witness ==
    /\ lastOp = "Quotient"
    /\ FixedPointFreeInvolution(atlas)
    /\ atlas.n = 96
    /\ atlas.mirror = MirrorHalfTurn(96)
    /\ Returned /\ result.actual_count = 48 /\ result.verified

\* C2 (as claimed): on an Atlas with an odd vertex count or a fixed point of
\* the mirror pairing, all mirror indices in range, Quotient returns, its
\* actual_count differs from N/2 and verified is false.
C2_MalformedRejected ==
    (/\ lastOp = "Quotient"
     /\ InRange(atlas)
     /\ (atlas.n % 2 = 1 \/ HasFixedPoint(atlas))) =>
        /\ Returned
        /\ result.actual_count # atlas.n \div 2
        /\ ~result.verified

\* C3: on an Atlas with 96 vertices, a fixed-point-free mirror involution, two
\* unity positions, at least 64 vertices of degree 5 and at least 8 of degree
\* 6, every operation returns verified with actual_count = expected_roots:
\* 12, 48, 72, 126, 240.
Canonical(a) ==
    /\ a.n = 96
    /\ FixedPointFreeInvolution(a)
    /\ Len(a.unity) = 2
    /\ Deg5Count(a) >= 64
    /\ Deg6Count(a) >= 8

C3_CanonicalVerified ==
    (lastOp \in Ops /\ Canonical(atlas)) =>
        /\ Returned
        /\ result.verified
        /\ result.actual_count = result.expected_roots
        /\ result.actual_count =
              (CASE lastOp = "Product" -> 12
                 [] lastOp = "Quotient" -> 48
                 [] lastOp = "Filtration" -> 72
                 [] lastOp = "Augmentation" -> 126
                 [] lastOp = "Morphism" -> 240)

C3_Witness ==
    /\ lastOp = "Augmentation"
    /\ Canonical(atlas)
    /\ Returned /\ result.verified /\ result.actual_count = 126

\* C4: Filtration's actual_count is min(64, deg5) + min(8, deg6), never above
\* 72, and 72 exactly when deg5 >= 64 and deg6 >= 8, which is exactly when
\* verified is true; vertices of other degrees change neither.
OnlyDegrees56(a) ==
    [a EXCEPT !.deg = [v \in Vertices(a.n) |->
                          IF a.deg[v] \in {5, 6} THEN a.deg[v] ELSE 0]]

C4_FiltrationCapped ==
    lastOp = "Filtration" =>
        LET d5 == Deg5Count(atlas)
            d6 == Deg6Count(atlas)
            stripped == verify_filtration(OnlyDegrees56(atlas))
        IN /\ Returned
           /\ result.actual_count = Min(64, d5) + Min(8, d6)
           /\ result.actual_count <= 72
           /\ (result.actual_count = 72) <=> (d5 >= 64 /\ d6 >= 8)
           /\ result.verified <=> (d5 >= 64 /\ d6 >= 8)
           /\ stripped.actual_count = result.actual_count
           /\ stripped.verified = result.verified

C4_Witness ==
    /\ lastOp = "Filtration"
    /\ Deg5Count(atlas) > 64
    /\ Deg6Count(atlas) > 8
    /\ \E v \in Vertices(atlas.n) : atlas.deg[v] \notin {5, 6}
    /\ Returned /\ result.actual_count = 72 /\ result.verified

\* C5 (as claimed): whenever mirror_pair answers an index outside [0,N) for
\* some vertex, Quotient ends in a panic and returns no result.
C5_BrokenAtlasFaults ==
    (/\ lastOp = "Quotient"
     /\ \E v \in Vertices(atlas.n) : atlas.mirror[v] \notin Vertices(atlas.n)) =>
        result.kind = "panic"

\* C6: Augmentation returns actual_count = N + 30, and verified exactly when
\* N = 96.
C6_AugmentationCount ==
    lastOp = "Augmentation" =>
        /\ Returned
        /\ result.actual_count = atlas.n + 30
        /\ result.verified <=> (atlas.n = 96)

C6_Witness ==
    /\ lastOp = "Augmentation"
    /\ atlas.n = 97
    /\ Returned /\ result.actual_count = 127 /\ ~result.verified

\* C7: Product returns actual_count = 12 whatever the Atlas, and verified
\* exactly when unity_positions() has 2 elements and 12 divides N.
C7_ProductFixed ==
    lastOp = "Product" =>
        /\ Returned
        /\ result.actual_count = 12
        /\ result.verified <=> (Len(atlas.unity) = 2 /\ atlas.n % 12 = 0)

C7_Witness ==
    /\ lastOp = "Product"
    /\ Len(atlas.unity) = 2
    /\ atlas.n = 95
    /\ Returned /\ result.actual_count = 12 /\ ~result.verified

\* C8: Morphism returns actual_count = 240 whatever N, and verified exactly
\* when N = 96; N and the coverage N*100/240 are carried by details only.
C8_MorphismFixed ==
    lastOp = "Morphism" =>
        /\ Returned
        /\ result.actual_count = 240
        /\ result.verified <=> (atlas.n = 96)
        /\ result.details = <<atlas.n, atlas.n, 240, (atlas.n * 100) \div 240>>

C8_Witness ==
    /\ lastOp = "Morphism"
    /\ atlas.n = 48
    /\ Returned /\ result.actual_count = 240 /\ ~result.verified
    /\ result.details[4] = 20

\* C9: every result verify returns carries the variant's expected_roots() and
\* target_group(), whatever the Atlas.
C9_ExpectedFromTaxonomy ==
    (lastOp \in Ops /\ Returned) =>
        /\ result.expected_roots = expected_roots(lastOp)
        /\ result.group_name = target_group(lastOp)

C9_Witness ==
    /\ lastOp = "Quotient"
    /\ HasFixedPoint(atlas)
    /\ Returned /\ ~result.verified
    /\ result.actual_count # 48 /\ result.expected_roots = 48

====
